---- MODULE Spec2Model ----
\* Clinic patient queue backend (Express + PostgreSQL): the storage operations
\* of src/src/db.ts, the token guard of src/src/auth.ts and the route handlers
\* of the Express application, as one state machine.  Every await of the code
\* is a scheduling point: one action runs from one await to the next.
EXTENDS Integers, Sequences, FiniteSets, TLC

\* ---------------------------------------------------------------- bounds
\* The wall clock is in milliseconds since midnight; it stops at MaxNow.
MaxNow == 60000
\* Values a SERIAL sequence may hand out before the model stops inserting.
MaxSeq == 3
\* The same, while requests interleave.
MaxConcSeq == 1
\* Connections the model lets leak before it stops failing the hash step.
MaxLeaks == 1
\* Times the process is started against the same database.
MaxStarts == 2
\* User ids a token subject ranges over.
MaxSubject == 11

\* Request slots: requests in flight at the same time.
Procs == {"r1", "r2"}
StartTimes == {59500}
TickSteps == {500}

\* ------------------------------------------------------ program constants
POOL_MAX == 10
NAME_LEN == 3
PROBLEM_LEN == 3
ACCESS_TOKEN_EXPIRE_MINUTES == 60 * 24

\* ------------------------------------------------------------- strings
\* A string of the program is a sequence of characters (or of digits, for
\* the timestamp), so that trimming, length and comparison are computed.
None == <<>>
Some(x) == <<x>>

Min(a, b) == IF a < b THEN a ELSE b

\* Lexicographic order of two sequences of integers: the text comparison of
\* ORDER BY on equal-format strings.
RECURSIVE LexLess(_, _)
LexLess(a, b) ==
    IF b = <<>> THEN FALSE
    ELSE IF a = <<>> THEN TRUE
    ELSE IF Head(a) # Head(b) THEN Head(a) < Head(b)
    ELSE LexLess(Tail(a), Tail(b))

\* Date.prototype.toISOString, time-of-day part "HH:MM:SS.mmmZ" as digits
\* (the date part is the same for every instant of the modelled day).
toISOString(ms) ==
    LET s == ms \div 1000
        f == ms % 1000
        hh == (s \div 3600) % 24
        mm == (s \div 60) % 60
        ss == s % 60
    IN  << hh \div 10, hh % 10, mm \div 10, mm % 10, ss \div 10, ss % 10,
           f \div 100, (f \div 10) % 10, f % 10 >>

\* .replace(/\.\d{3}Z$/, "Z"): drops the three millisecond digits.
StripMillis(iso) == SubSeq(iso, 1, Len(iso) - 3)

\* The instant (in seconds) a stored arrivalTime string denotes.
SecondsOf(arr) ==
    IF Len(arr) # 6 THEN 0 - 1
    ELSE (arr[1] * 10 + arr[2]) * 3600 + (arr[3] * 10 + arr[4]) * 60
         + arr[5] * 10 + arr[6]

\* String.prototype.trim on a sequence of characters.
RECURSIVE TrimLeft(_)
TrimLeft(s) ==
    IF s # <<>> /\ Head(s) = " " THEN TrimLeft(Tail(s)) ELSE s

RECURSIVE TrimRight(_)
TrimRight(s) ==
    IF s # <<>> /\ s[Len(s)] = " " THEN TrimRight(SubSeq(s, 1, Len(s) - 1)) ELSE s

Trim(s) == TrimRight(TrimLeft(s))

\* String(n) for a non-negative integer, as decimal digits.
RECURSIVE DigitsOf(_)
DigitsOf(n) ==
    IF n < 10 THEN <<n>> ELSE DigitsOf(n \div 10) \o <<n % 10>>

\* parseInt(s, 10) on a digit string; NaN is modelled as -1.
RECURSIVE ParseDigits(_, _)
ParseDigits(ds, acc) ==
    IF ds = <<>> THEN acc ELSE ParseDigits(Tail(ds), acc * 10 + Head(ds))

\* parseInt that stops after the first digit.
parseInt_firstDigit(ds) == IF ds = <<>> THEN 0 - 1 ELSE Head(ds)

parseInt(ds) == IF ds = <<>> THEN 0 - 1 ELSE ParseDigits(ds, 0)

\* All orderings of a finite set, as sequences without repetition.
RECURSIVE Perms(_)
Perms(S) ==
    IF S = {} THEN { <<>> }
    ELSE UNION { { <<x>> \o t : t \in Perms(S \ {x}) } : x \in S }

\* ------------------------------------------------------------- state
VARIABLES
    now,          \* wall clock, ms
    dataFile,     \* contents of data.json (a sequence of patient rows)
    usersTable,   \* CREATE TABLE users has run
    patientsTable,\* CREATE TABLE patients has run
    users,        \* rows of users
    usersSeq,     \* next value of users_id_seq
    patients,     \* rows of patients
    patientsSeq,  \* next value of patients_id_seq
    checkedOut,   \* pool connections checked out and not released
    boot,         \* initDb: its position, whether it holds a client, import
                  \* index, and which start of the process this is
    listening,    \* app.listen has been called
    pc,           \* per request: the await it is suspended at
    frame,        \* per request: locals of the guard, the handler and the db call
    ret,          \* per request: what the storage operation returned or threw
    res           \* per request: the Express response object

vars == << now, dataFile, usersTable, patientsTable, users, usersSeq, patients,
           patientsSeq, checkedOut, boot, listening, pc, frame, ret, res >>

dbVars == << usersTable, patientsTable, users, usersSeq, patients, patientsSeq >>
procVars == << pc, frame, ret, res >>

\* ------------------------------------------------------------- rows
Bob == << "B", "o", "b" >>
Al == << "A", "l" >>
Flu == << "F", "l", "u" >>

NameInputs == { Bob, Al }
ProblemInputs == { Flu }

\* Names and problems typed with spaces around them, or of spaces only.
Blank == << " ", " ", " " >>
PaddedAl == << " ", "A", "l" >>
PaddedFlu == << " ", "F", "l", "u", " " >>
PaddedNameInputs == { Blank, PaddedAl }
PaddedProblemInputs == { Blank, PaddedFlu }
Priorities == { "Normal", "Emergency" }

PatientRow(id, name, problem, priority, arrivalTime, status) ==
    [ id |-> id, name |-> name, problem |-> problem, priority |-> priority,
      arrivalTime |-> arrivalTime, status |-> status ]

\* rowToPatient: copies the columns; arrivalTime falls back to "" when the
\* column is empty.
rowToPatient(r) ==
    [ id |-> r.id, name |-> r.name, problem |-> r.problem,
      priority |-> r.priority,
      arrivalTime |-> IF r.arrivalTime # <<>> THEN r.arrivalTime ELSE <<>>,
      status |-> r.status ]

UserRow(id, name, email, password, role) ==
    [ id |-> id, name |-> name, email |-> email, password |-> password,
      role |-> role ]

\* rowToUser: the public projection, without the password hash.
rowToUser(r) == [ id |-> r.id, name |-> r.name, email |-> r.email, role |-> r.role ]

\* data.json as shipped beside the sources: absent or empty, or rows that
\* carry their own ids, arrival times and statuses.
DataFiles ==
    { << >>,
      << PatientRow(1, Bob, Flu, "Normal", StripMillis(toISOString(58000)), "Waiting") >> }

PatientIds == { r.id : r \in patients }
PatientById(id) == CHOOSE r \in patients : r.id = id

\* hashPassword / verifyPassword (bcrypt): the hash of a password verifies
\* that password and no other.
hashPassword(password) == << "bcrypt", password >>
verifyPassword(plain, hashed) == hashed = << "bcrypt", plain >>

AdminEmail == "admin@clinic.com"
EmailInputs == { AdminEmail, "a@x.com" }
PasswordInputs == { "admin123", "secret1" }

\* ------------------------------------------------ SELECT ... ORDER BY
\* CASE WHEN priority='Emergency' THEN 0 ELSE 1 END
PriorityKey(r) == IF r.priority = "Emergency" THEN 0 ELSE 1

\* OrderBefore with the second key descending ("arrivalTime" DESC).
OrderBefore_arrivalDesc(a, b) ==
    \/ PriorityKey(a) < PriorityKey(b)
    \/ /\ PriorityKey(a) = PriorityKey(b)
       /\ LexLess(b.arrivalTime, a.arrivalTime)

\* Row a sorts strictly before row b under ORDER BY <case>, "arrivalTime" ASC.
OrderBefore(a, b) ==
    \/ PriorityKey(a) < PriorityKey(b)
    \/ /\ PriorityKey(a) = PriorityKey(b)
       /\ LexLess(a.arrivalTime, b.arrivalTime)

\* WaitingRows without the WHERE clause.
WaitingRows_noFilter(rows) == rows

\* WHERE status='Waiting'
WaitingRows(rows) == { r \in rows : r.status = "Waiting" }

\* The result sets the query of getAllPatients may produce: the Waiting rows
\* in an order consistent with the ORDER BY keys; rows with equal keys come
\* in whichever order the engine yields them.
SelectWaitingOrdered(rows) ==
    { s \in Perms(WaitingRows(rows)) :
        \A i \in 1..Len(s) : \A j \in 1..Len(s) :
            i < j => ~OrderBefore(s[j], s[i]) }

\* CountEmergency without the status='Waiting' condition.
CountEmergency_anyStatus(rows) ==
    Cardinality({ r \in rows : r.priority = "Emergency" })

\* SELECT COUNT(*) ... WHERE status= / priority=
CountWaiting(rows) == Cardinality({ r \in rows : r.status = "Waiting" })

CountEmergency(rows) ==
    Cardinality({ r \in rows : r.status = "Waiting" /\ r.priority = "Emergency" })

CountVisited(rows) == Cardinality({ r \in rows : r.status = "Visited" })

\* UpdateVisited that flips the status instead of setting it.
UpdateVisited_toggle(rows, id) ==
    { IF r.id = id
      THEN [ r EXCEPT !.status = IF @ = "Visited" THEN "Waiting" ELSE "Visited" ]
      ELSE r : r \in rows }

\* The UPDATE without its WHERE clause.
UpdateVisited_noWhere(rows, id) ==
    { [ r EXCEPT !.status = "Visited" ] : r \in rows }

\* UPDATE patients SET status='Visited' WHERE id = $1
UpdateVisited(rows, id) ==
    { IF r.id = id THEN [ r EXCEPT !.status = "Visited" ] ELSE r : r \in rows }

\* ------------------------------------------------------------- tokens
\* A JWT: its payload and whether its signature verifies under JWT_SECRET
\* with JWT_ALGORITHM.  sub is a string (digits), a number, or absent.
StrSub(ds) == [ t |-> "string", s |-> ds, n |-> 0 ]
NumSub(n) == [ t |-> "number", s |-> <<>>, n |-> n ]
NoSub == [ t |-> "undefined", s |-> <<>>, n |-> 0 ]

Jwt(sub, email, role, iat, exp, sig) ==
    [ lit |-> "jwt", sub |-> sub, email |-> email, role |-> role,
      iat |-> iat, exp |-> exp, sig |-> sig ]

\* A header or cookie value that is no JWT: "", "null", "undefined", junk.
Lit(text) ==
    [ lit |-> text, sub |-> NoSub, email |-> "", role |-> "",
      iat |-> 0, exp |-> 0, sig |-> "bad" ]

\* String(sub): a number becomes its decimal digits, a string stays.
StringOf(sub) == IF sub.t = "number" THEN StrSub(DigitsOf(sub.n)) ELSE sub

\* createAccessToken with the role claim left out of the signed payload.
createAccessToken_dropsRole(sub, email, role, expiresDelta, t) ==
    Jwt(StringOf(sub), email, "", t \div 1000,
        (t \div 1000) + ACCESS_TOKEN_EXPIRE_MINUTES * 60, "ok")

\* createAccessToken: a present sub is turned into a string; the token
\* expires expiresDelta seconds after it is signed, or after
\* ACCESS_TOKEN_EXPIRE_MINUTES when no (or a zero) expiresDelta is given.
createAccessToken(sub, email, role, expiresDelta, t) ==
    LET iat == t \div 1000
        expiresIn == IF expiresDelta # 0 THEN expiresDelta
                     ELSE ACCESS_TOKEN_EXPIRE_MINUTES * 60
    IN  Jwt(IF sub.t # "undefined" THEN StringOf(sub) ELSE sub,
            email, role, iat, iat + expiresIn, "ok")

InvalidCredentials == "Invalid authentication credentials"

\* decodeToken without the expiry check of jwt.verify.
decodeToken_ignoresExpiry(token, t) ==
    IF token.lit = "jwt" /\ token.sig = "ok"
    THEN [ ok |-> TRUE, payload |-> token, error |-> "" ]
    ELSE [ ok |-> FALSE, payload |-> token, error |-> InvalidCredentials ]

\* decodeToken: jwt.verify; any failure becomes the one error
\* "Invalid authentication credentials".
decodeToken(token, t) ==
    IF token.lit = "jwt" /\ token.sig = "ok" /\ (t \div 1000) < token.exp
    THEN [ ok |-> TRUE, payload |-> token, error |-> "" ]
    ELSE [ ok |-> FALSE, payload |-> token, error |-> InvalidCredentials ]

\* Requests carry an Authorization header (absent, or a scheme in lower
\* case, the number of spaces after it, and a value that may stand in double
\* quotes) and may carry the JWT cookie.
Bearer(value) ==
    << [ scheme |-> "bearer", gap |-> 1, quoted |-> FALSE, value |-> value ] >>
Basic(value) ==
    << [ scheme |-> "basic", gap |-> 1, quoted |-> FALSE, value |-> value ] >>
BearerWide(value) ==
    << [ scheme |-> "bearer", gap |-> 2, quoted |-> FALSE, value |-> value ] >>
BearerQuoted(value) ==
    << [ scheme |-> "bearer", gap |-> 1, quoted |-> TRUE, value |-> value ] >>

\* String.prototype.toLowerCase on the literal header values of the model.
toLowerCase(text) ==
    IF text = "NULL" THEN "null"
    ELSE IF text = "Undefined" THEN "undefined"
    ELSE text

\* authHeader.split(" ", 2)[1].trim().replace(/^"|"$/g, "").trim(): the piece
\* between the first and the second space, without surrounding quotes; it is
\* empty when two spaces follow the scheme.
BearerToken(h) == IF h.gap = 1 THEN h.value ELSE Lit("")

\* extractToken: the bearer value unless empty, "null" or "undefined";
\* otherwise the cookie; otherwise it throws.
extractToken(authHeader, cookie) ==
    IF /\ authHeader # None
       /\ authHeader[1].scheme = "bearer"
       /\ BearerToken(authHeader[1]).lit # ""
       /\ toLowerCase(BearerToken(authHeader[1]).lit) \notin { "null", "undefined" }
    THEN Some(BearerToken(authHeader[1]))
    ELSE IF cookie # None /\ cookie[1].lit # ""
    THEN Some(cookie[1])
    ELSE None

GoodTok == createAccessToken(NumSub(1), AdminEmail, "admin", 0, 0)
ExpiringTok == Jwt(StrSub(<<1>>), AdminEmail, "admin", 0, 60, "ok")
ExpiredTok == Jwt(StrSub(<<1>>), AdminEmail, "admin", 0, 1, "ok")
TamperedTok == Jwt(StrSub(<<1>>), AdminEmail, "admin", 0, 86400, "bad")
NoSubTok == Jwt(NoSub, AdminEmail, "admin", 0, 86400, "ok")

HeaderInputs ==
    { None, Bearer(GoodTok), Bearer(ExpiringTok), Bearer(ExpiredTok),
      Bearer(TamperedTok), Bearer(NoSubTok), Bearer(Lit("null")),
      Basic(GoodTok) }
CookieInputs == { None, Some(GoodTok), Some(TamperedTok) }

\* ------------------------------------------------------- Express response
NewRes ==
    [ sent |-> FALSE, status |-> 200, message |-> "", body |-> <<>>,
      headers |-> {}, cookie |-> None, threw |-> FALSE ]

\* res.status(code).json(body): sends the response with the headers set so
\* far; on a response already sent it throws.
status_json(r, code, message) ==
    IF r.sent THEN [ r EXCEPT !.threw = TRUE ]
    ELSE [ r EXCEPT !.sent = TRUE, !.status = code, !.message = message ]

\* res.status(code).json(data): as status_json, with a data body.
status_body(r, code, body) ==
    IF r.sent THEN [ r EXCEPT !.threw = TRUE ]
    ELSE [ r EXCEPT !.sent = TRUE, !.status = code, !.body = body ]

\* res.setHeader(name): throws ERR_HTTP_HEADERS_SENT once the response is sent.
setHeader(r, name) ==
    IF r.sent THEN [ r EXCEPT !.threw = TRUE ]
    ELSE [ r EXCEPT !.headers = @ \cup { name } ]

\* res.cookie(JWT_COOKIE_NAME, value, { maxAge, ... })
set_cookie(r, value, maxAge) ==
    IF r.sent THEN [ r EXCEPT !.threw = TRUE ]
    ELSE [ r EXCEPT !.cookie = Some([ value |-> value, maxAge |-> maxAge ]) ]

\* authMiddleware that tries the cookie when the header's token fails.
authMiddleware_cookieFallback(authHeader, cookie, t) ==
    LET first == extractToken(authHeader, cookie)
        token == IF first # None /\ ~decodeToken(first[1], t).ok
                 THEN extractToken(None, cookie) ELSE first
        ok == token # None /\ decodeToken(token[1], t).ok
              /\ token[1].sub.t # "undefined"
    IN  IF ok
        THEN [ token |-> token, next |-> TRUE,
               currentUser |->
                    Some([ user_id |-> IF token[1].sub.t = "number" THEN token[1].sub.n
                                       ELSE parseInt(token[1].sub.s),
                           email |-> token[1].email, role |-> token[1].role ]),
               res |-> NewRes ]
        ELSE [ token |-> token, next |-> FALSE, currentUser |-> None,
               res |-> status_json(NewRes, 401, InvalidCredentials) ]

\* authMiddleware whose catch block falls through to next().
authMiddleware_nextOnFailure(authHeader, cookie, t) ==
    [ token |-> extractToken(authHeader, cookie), next |-> TRUE,
      currentUser |-> Some([ user_id |-> 0, email |-> "", role |-> "" ]),
      res |-> NewRes ]

\* authMiddleware, from the request to next() or to the 401: the token it
\* selected, whether it called next(), req.currentUser and the response.
authMiddleware(authHeader, cookie, t) ==
    LET token == extractToken(authHeader, cookie)
        failed == setHeader(status_json(NewRes, 401, InvalidCredentials),
                            "WWW-Authenticate: Bearer")
    IN  IF token = None
        THEN [ token |-> None, next |-> FALSE, currentUser |-> None, res |-> failed ]
        ELSE LET dec == decodeToken(token[1], t)
                 userIdRaw == dec.payload.sub
             IN  IF ~dec.ok
                 THEN [ token |-> token, next |-> FALSE, currentUser |-> None,
                        res |-> failed ]
                 ELSE IF userIdRaw.t = "undefined"
                 THEN [ token |-> token, next |-> FALSE, currentUser |-> None,
                        res |-> status_json(NewRes, 401, InvalidCredentials) ]
                 ELSE [ token |-> token, next |-> TRUE,
                        currentUser |->
                            Some([ user_id |-> IF userIdRaw.t = "number"
                                               THEN userIdRaw.n
                                               ELSE parseInt(userIdRaw.s),
                                   email |-> dec.payload.email,
                                   role |-> dec.payload.role ]),
                        res |-> NewRes ]

\* ------------------------------------------------------------- frames
\* The locals of one request: the guard's (token, currentUser), the
\* handler's (route, entered) and those of the storage operation it awaits.
EmptyFrame ==
    [ route |-> "none", token |-> None, entered |-> FALSE, currentUser |-> None,
      fn |-> "none", via |-> "none", authHeader |-> None, cookie |-> None,
      body_role |-> None, role |-> "",
      client |-> FALSE,
      patient_id |-> 0, name |-> <<>>, problem |-> <<>>, priority |-> "Normal",
      arrival |-> <<>>, email |-> "", password |-> "", hashed |-> <<>>,
      user_id |-> 0, user |-> None, waiting |-> 0, emergency |-> 0 ]

NoRet == [ kind |-> "none" ]
Returned(v) == [ kind |-> "return", val |-> v ]
Thrown(message) == [ kind |-> "throw", error |-> message ]

Unavailable == "storage unavailable"
DuplicateKey == "duplicate key value violates unique constraint"
HashFailed == "hash failed"

\* Connections checked out that no running operation holds any more.
Leaked ==
    checkedOut - Cardinality({ p \in Procs : frame[p].client })
               - (IF boot.client THEN 1 ELSE 0)

\* ------------------------------------------------------------- Init
\* Process start on a fresh database: no tables yet, the pool empty, initDb
\* about to run, the server not listening.
Init ==
    /\ now \in StartTimes
    /\ dataFile \in DataFiles
    /\ usersTable = FALSE
    /\ patientsTable = FALSE
    /\ users = {}
    /\ usersSeq = 1
    /\ patients = {}
    /\ patientsSeq = 1
    /\ checkedOut = 0
    /\ boot = [ pc |-> "connect", client |-> FALSE, idx |-> 1, hashed |-> <<>>,
                run |-> 1 ]
    /\ listening = FALSE
    /\ pc = [ p \in Procs |-> "idle" ]
    /\ frame = [ p \in Procs |-> EmptyFrame ]
    /\ ret = [ p \in Procs |-> NoRet ]
    /\ res = [ p \in Procs |-> NewRes ]

\* The clock advances.
Tick ==
    /\ \E d \in TickSteps :
        /\ now + d <= MaxNow
        /\ now' = now + d
    /\ UNCHANGED << dataFile, dbVars, checkedOut, boot, listening, procVars >>

\* ------------------------------------------------------------- initDb
\* initDb ends: finally releases the client (if held); initializeDatabase
\* swallows a failure; then app.listen runs.
BootEnd(outcome) ==
    /\ boot' = [ boot EXCEPT !.pc = outcome, !.client = FALSE ]
    /\ checkedOut' = IF boot.client THEN checkedOut - 1 ELSE checkedOut
    /\ listening' = TRUE

\* BootGoto that calls app.listen before initDb has finished.
BootGoto_listensEarly(next) ==
    /\ boot' = [ boot EXCEPT !.pc = next ]
    /\ listening' = TRUE
    /\ UNCHANGED checkedOut

\* initDb goes on to its next query.
BootGoto(next) ==
    /\ boot' = [ boot EXCEPT !.pc = next ]
    /\ UNCHANGED << checkedOut, listening >>

\* client = await getDbClient()
initDb_connect ==
    /\ boot.pc = "connect"
    /\ \E up \in BOOLEAN :
        IF up
        THEN /\ checkedOut < POOL_MAX
             /\ boot' = [ boot EXCEPT !.pc = "createUsers", !.client = TRUE ]
             /\ checkedOut' = checkedOut + 1
             /\ UNCHANGED listening
        ELSE BootEnd("failed")
    /\ UNCHANGED << now, dataFile, dbVars, procVars >>

\* CREATE TABLE IF NOT EXISTS users
initDb_createUsers ==
    /\ boot.pc = "createUsers"
    /\ \E up \in BOOLEAN :
        IF up
        THEN /\ usersTable' = TRUE
             /\ BootGoto("createPatients")
        ELSE /\ BootEnd("failed")
             /\ UNCHANGED usersTable
    /\ UNCHANGED << now, dataFile, patientsTable, users, usersSeq, patients,
                    patientsSeq, procVars >>

\* CREATE TABLE IF NOT EXISTS patients
initDb_createPatients ==
    /\ boot.pc = "createPatients"
    /\ \E up \in BOOLEAN :
        IF up
        THEN /\ patientsTable' = TRUE
             /\ BootGoto("adminCheck")
        ELSE /\ BootEnd("failed")
             /\ UNCHANGED patientsTable
    /\ UNCHANGED << now, dataFile, usersTable, users, usersSeq, patients,
                    patientsSeq, procVars >>

\* SELECT id FROM users WHERE email = 'admin@clinic.com'
initDb_adminCheck ==
    /\ boot.pc = "adminCheck"
    /\ \E up \in BOOLEAN :
        IF up
        THEN IF { u \in users : u.email = AdminEmail } = {}
             THEN BootGoto("adminHash")
             ELSE BootGoto("count")
        ELSE BootEnd("failed")
    /\ UNCHANGED << now, dataFile, dbVars, procVars >>

\* hashedPassword = await hashPassword("admin123")
initDb_adminHash ==
    /\ boot.pc = "adminHash"
    /\ \E ok \in BOOLEAN :
        IF ok
        THEN /\ boot' = [ boot EXCEPT !.pc = "adminInsert",
                                      !.hashed = hashPassword("admin123") ]
             /\ UNCHANGED << checkedOut, listening >>
        ELSE BootEnd("failed")
    /\ UNCHANGED << now, dataFile, dbVars, procVars >>

\* INSERT INTO users ... 'admin'
initDb_adminInsert ==
    /\ boot.pc = "adminInsert"
    /\ \E up \in BOOLEAN :
        IF up
        THEN /\ usersSeq' = usersSeq + 1
             /\ IF \E u \in users : u.email = AdminEmail
                THEN /\ BootEnd("failed")
                     /\ UNCHANGED users
                ELSE /\ users' = users \cup
                            { UserRow(usersSeq, "Admin User", AdminEmail,
                                      boot.hashed, "admin") }
                     /\ BootGoto("count")
        ELSE /\ BootEnd("failed")
             /\ UNCHANGED << users, usersSeq >>
    /\ UNCHANGED << now, dataFile, usersTable, patientsTable, patients,
                    patientsSeq, procVars >>

\* SELECT COUNT(*) FROM patients; the import runs only on an empty table and
\* an existing data.json.
initDb_count ==
    /\ boot.pc = "count"
    /\ \E up \in BOOLEAN :
        IF up
        THEN IF Cardinality(patients) = 0 /\ boot.idx <= Len(dataFile)
             THEN BootGoto("import")
             ELSE BootEnd("done")
        ELSE BootEnd("failed")
    /\ UNCHANGED << now, dataFile, dbVars, procVars >>

\* One INSERT of the import loop, with the id of the file; an error ends the
\* loop and is ignored.
initDb_import ==
    /\ boot.pc = "import"
    /\ LET p == dataFile[boot.idx] IN
       \E up \in BOOLEAN :
        IF up /\ p.id \notin PatientIds
        THEN /\ patients' = patients \cup { p }
             /\ IF boot.idx < Len(dataFile)
                THEN /\ boot' = [ boot EXCEPT !.idx = @ + 1 ]
                     /\ UNCHANGED << checkedOut, listening >>
                ELSE BootEnd("done")
        ELSE /\ BootEnd("done")
             /\ UNCHANGED patients
    /\ UNCHANGED << now, dataFile, usersTable, patientsTable, users, usersSeq,
                    patientsSeq, procVars >>

\* The process is stopped and started again: requests in flight and the
\* connection pool are gone, the database keeps its tables and rows, and the
\* startup code runs from the top.
Restart ==
    /\ boot.run < MaxStarts
    /\ boot' = [ pc |-> "connect", client |-> FALSE, idx |-> 1, hashed |-> <<>>,
                 run |-> boot.run + 1 ]
    /\ listening' = FALSE
    /\ checkedOut' = 0
    /\ pc' = [ p \in Procs |-> "idle" ]
    /\ frame' = [ p \in Procs |-> EmptyFrame ]
    /\ ret' = [ p \in Procs |-> NoRet ]
    /\ res' = [ p \in Procs |-> NewRes ]
    /\ UNCHANGED << now, dataFile, dbVars >>

initDb ==
    \/ initDb_connect
    \/ initDb_createUsers
    \/ initDb_createPatients
    \/ initDb_adminCheck
    \/ initDb_adminHash
    \/ initDb_adminInsert
    \/ initDb_count
    \/ initDb_import

\* ------------------------------------------------------------- requests
ProtectedRoutes ==
    { "GET /patients", "POST /patients", "PUT /patients/:patient_id/visit",
      "GET /patients/stats", "GET /auth/me" }

\* Storage operations in flight of kind fn.
InFlight(fn) ==
    Cardinality({ q \in Procs : frame[q].fn = fn /\ pc[q] \notin { "idle", "done" } })

\* The handler answers and the request is over.
Respond(p, f, r, response) ==
    /\ pc' = [ pc EXCEPT ![p] = "done" ]
    /\ frame' = [ frame EXCEPT ![p] = f ]
    /\ ret' = [ ret EXCEPT ![p] = r ]
    /\ res' = [ res EXCEPT ![p] = response ]

\* The handler awaits its next step.
Goto(p, next, f) ==
    /\ pc' = [ pc EXCEPT ![p] = next ]
    /\ frame' = [ frame EXCEPT ![p] = f ]
    /\ UNCHANGED << ret, res >>

\* client.release() in finally.
Released(f) == [ f EXCEPT !.client = FALSE ]

\* A request for a protected route arrives: authMiddleware runs; on next()
\* the handler runs up to its first await (the pool connection of the
\* storage operation fn), otherwise the guard's response is what is sent.
Guarded(p, route, fn, args) ==
    /\ pc[p] = "idle"
    /\ listening
    /\ \E h \in HeaderInputs : \E c \in CookieInputs :
        LET g == authMiddleware(h, c, now) IN
        IF g.next
        THEN /\ pc' = [ pc EXCEPT ![p] = "connect" ]
             /\ frame' = [ frame EXCEPT ![p] =
                    [ args EXCEPT !.route = route, !.token = g.token,
                                  !.entered = TRUE, !.fn = fn,
                                  !.currentUser = g.currentUser ] ]
             /\ res' = [ res EXCEPT ![p] = g.res ]
             /\ UNCHANGED ret
        ELSE Respond(p, [ EmptyFrame EXCEPT !.route = route ], NoRet, g.res)
    /\ UNCHANGED << now, dataFile, dbVars, checkedOut, boot, listening >>

\* GET /patients
GET_patients(p) == Guarded(p, "GET /patients", "getAllPatients", EmptyFrame)

\* GET /patients/stats
GET_stats(p) == Guarded(p, "GET /patients/stats", "getStats", EmptyFrame)

\* PUT /patients/:patient_id/visit, patient_id = parseInt(req.params.patient_id)
PUT_visit(p) ==
    \E id \in 1..MaxSeq :
        Guarded(p, "PUT /patients/:patient_id/visit", "markVisited",
                [ EmptyFrame EXCEPT !.patient_id = id ])

\* GET /auth/me: getUserById(currentUser.user_id); the id is read in Connect.
GET_me(p) == Guarded(p, "GET /auth/me", "getUserById", EmptyFrame)

\* patientInSchema: name and problem of at least NAME_LEN / PROBLEM_LEN
\* characters.  The message of the first violated constraint, or "".
validatePatientIn(name, problem) ==
    IF Len(name) < NAME_LEN THEN "name must be at least 3 characters"
    ELSE IF Len(problem) < PROBLEM_LEN THEN "problem must be at least 3 characters"
    ELSE ""

\* POST /patients: guard, validation (400), then addPatient with the trimmed
\* name and problem.
POST_patients_body(p, names, problems) ==
    /\ patientsSeq + InFlight("addPatient") <= MaxSeq
    /\ \E name \in names : \E problem \in problems :
       \E priority \in Priorities :
        /\ Guarded(p, "POST /patients", "addPatient",
                   [ EmptyFrame EXCEPT !.name = Trim(name),
                                       !.problem = Trim(problem),
                                       !.priority = priority ])
        /\ validatePatientIn(name, problem) = ""

POST_patients(p) == POST_patients_body(p, NameInputs, ProblemInputs)

\* POST /patients with a name and a problem typed with spaces.
POST_patients_padded(p) ==
    POST_patients_body(p, PaddedNameInputs, PaddedProblemInputs)

\* POST /patients with a body the schema rejects: 400 after the guard.
POST_patients_invalid(p) ==
    /\ pc[p] = "idle"
    /\ listening
    /\ \E h \in HeaderInputs : \E c \in CookieInputs :
       \E name \in NameInputs : \E problem \in ProblemInputs :
        LET g == authMiddleware(h, c, now) IN
        /\ g.next
        /\ validatePatientIn(name, problem) # ""
        /\ Respond(p, [ EmptyFrame EXCEPT !.route = "POST /patients",
                                          !.token = g.token, !.entered = TRUE,
                                          !.currentUser = g.currentUser ],
                   NoRet,
                   status_json(g.res, 400, validatePatientIn(name, problem)))
    /\ UNCHANGED << now, dataFile, dbVars, checkedOut, boot, listening >>

\* An unprotected route starts its storage operation.
Unguarded(p, route, fn, args) ==
    /\ pc[p] = "idle"
    /\ listening
    /\ pc' = [ pc EXCEPT ![p] = "connect" ]
    /\ frame' = [ frame EXCEPT ![p] =
            [ args EXCEPT !.route = route, !.entered = TRUE, !.fn = fn ] ]
    /\ UNCHANGED << ret, res >>
    /\ UNCHANGED << now, dataFile, dbVars, checkedOut, boot, listening >>

\* A signup body may carry a role key beside name, email and password.
BodyRoles == { None, Some("admin") }

\* The role the signup route would pass on if it took it from the body.
signupRole_fromBody(body_role) == IF body_role = None THEN "user" ELSE body_role[1]

\* The role the signup route passes to createUser: the literal "user".
signupRole(body_role) == "user"

\* POST /auth/signup: createUser(name, email, password, "user")
POST_signup(p) ==
    /\ usersSeq + InFlight("createUser") <= MaxSeq
    /\ \E email \in EmailInputs : \E body_role \in BodyRoles :
        Unguarded(p, "POST /auth/signup", "createUser",
                  [ EmptyFrame EXCEPT !.name = Bob, !.email = email,
                                      !.password = "secret1",
                                      !.body_role = body_role,
                                      !.role = signupRole(body_role) ])

\* POST /auth/login: getUserByEmail(email), then verifyPassword
POST_login(p) ==
    \E email \in EmailInputs : \E password \in PasswordInputs :
        Unguarded(p, "POST /auth/login", "getUserByEmail",
                  [ EmptyFrame EXCEPT !.email = email, !.password = password ])

\* POST /auth/logout: the cookie is set again, empty and with maxAge 0; no
\* guard, no storage.
POST_logout(p) ==
    /\ pc[p] = "idle"
    /\ listening
    /\ Respond(p, [ EmptyFrame EXCEPT !.route = "POST /auth/logout", !.entered = TRUE ],
               NoRet,
               status_json(set_cookie(NewRes, Lit(""), 0), 200, "Logged out successfully"))
    /\ UNCHANGED << now, dataFile, dbVars, checkedOut, boot, listening >>

\* ------------------------------------------------------ storage operations
\* The operation threw; its caller's catch answers 500 with the message
\* (signup answers 400 to "Email already exists").
HandlerCatch(p, f, message) ==
    Respond(p, f, Thrown(message),
            status_json(res[p],
                        IF f.route = "POST /auth/signup" /\ message = "Email already exists"
                        THEN 400 ELSE 500,
                        message))

EnvUnchanged == UNCHANGED << now, dataFile, boot, listening >>

\* const client = await getDbClient(): a pool connection, or the throw of a
\* pool that cannot connect.  addPatient takes its timestamp right after.
getDbClient(p) ==
    /\ pc[p] = "connect"
    /\ \E up \in BOOLEAN :
        IF up
        THEN /\ checkedOut < POOL_MAX
             /\ checkedOut' = checkedOut + 1
             /\ LET f == [ frame[p] EXCEPT !.client = TRUE, !.token = None ] IN
                CASE f.fn = "getAllPatients" -> Goto(p, "select", f)
                  [] f.fn = "markVisited" -> Goto(p, "select", f)
                  [] f.fn = "getUserByEmail" -> Goto(p, "select", f)
                  [] f.fn = "getUserById" ->
                        Goto(p, "select",
                             [ f EXCEPT !.user_id = f.currentUser[1].user_id ])
                  [] f.fn = "getStats" -> Goto(p, "count1", f)
                  [] f.fn = "createUser" -> Goto(p, "hash", f)
                  [] f.fn = "addPatient" ->
                        Goto(p, "insert",
                             [ f EXCEPT !.arrival = StripMillis(toISOString(now)) ])
        ELSE /\ HandlerCatch(p, frame[p], Unavailable)
             /\ UNCHANGED checkedOut
    /\ UNCHANGED dbVars
    /\ EnvUnchanged

\* getAllPatients: the SELECT, then rowToPatient on every row; finally release.
getAllPatients(p) ==
    /\ pc[p] = "select"
    /\ frame[p].fn = "getAllPatients"
    /\ \E up \in BOOLEAN :
        IF up /\ patientsTable
        THEN \E rows \in SelectWaitingOrdered(patients) :
                LET list == [ i \in 1..Len(rows) |-> rowToPatient(rows[i]) ] IN
                Respond(p, Released(frame[p]), Returned(list),
                        status_body(res[p], 200, list))
        ELSE HandlerCatch(p, Released(frame[p]), Unavailable)
    /\ checkedOut' = checkedOut - 1
    /\ UNCHANGED dbVars
    /\ EnvUnchanged

\* addPatient: INSERT ... RETURNING * with the next value of the id sequence;
\* a taken id is a unique violation, which addPatient lets through.
addPatient(p) ==
    /\ pc[p] = "insert"
    /\ frame[p].fn = "addPatient"
    /\ \E up \in BOOLEAN :
        IF up /\ patientsTable
        THEN /\ patientsSeq' = patientsSeq + 1
             /\ IF patientsSeq \in PatientIds
                THEN /\ HandlerCatch(p, Released(frame[p]), DuplicateKey)
                     /\ UNCHANGED patients
                ELSE LET row == PatientRow(patientsSeq, frame[p].name,
                                           frame[p].problem, frame[p].priority,
                                           frame[p].arrival, "Waiting")
                     IN  /\ patients' = patients \cup { row }
                         /\ Respond(p, Released(frame[p]),
                                    Returned(rowToPatient(row)),
                                    status_body(res[p], 201, Some(rowToPatient(row))))
        ELSE /\ HandlerCatch(p, Released(frame[p]), Unavailable)
             /\ UNCHANGED << patients, patientsSeq >>
    /\ checkedOut' = checkedOut - 1
    /\ UNCHANGED << usersTable, patientsTable, users, usersSeq >>
    /\ EnvUnchanged

\* What the visit route answers to markVisited's [patient, err].
VisitResponse(r, err) ==
    IF err = Some("not_found") THEN status_json(r, 404, "Patient not found")
    ELSE IF err = Some("already_visited")
    THEN status_json(r, 400, "Patient already visited")
    ELSE status_json(r, 200, "Patient marked as visited successfully")

MarkVisitedResult(patient, err) == [ patient |-> patient, err |-> err ]

\* markVisited_check without the test of row.status.
markVisited_check_noStatusTest(rows, id) ==
    IF { r \in rows : r.id = id } = {} THEN "not_found" ELSE "update"

\* markVisited_check with the two error codes swapped.
markVisited_check_swapped(rows, id) ==
    IF { r \in rows : r.id = id } = {} THEN "already_visited"
    ELSE IF (CHOOSE r \in rows : r.id = id).status = "Visited" THEN "not_found"
    ELSE "update"

\* markVisited between its two queries: the early returns on no row and on
\* a row already Visited, otherwise the UPDATE.
markVisited_check(rows, id) ==
    IF { r \in rows : r.id = id } = {} THEN "not_found"
    ELSE IF (CHOOSE r \in rows : r.id = id).status = "Visited" THEN "already_visited"
    ELSE "update"

\* markVisited, first query: SELECT * FROM patients WHERE id = $1, and the
\* two early returns.
markVisited_select(p) ==
    /\ pc[p] = "select"
    /\ frame[p].fn = "markVisited"
    /\ \E up \in BOOLEAN :
        IF up /\ patientsTable
        THEN LET check == markVisited_check(patients, frame[p].patient_id) IN
             IF check = "update"
             THEN /\ Goto(p, "update", frame[p])
                  /\ UNCHANGED checkedOut
             ELSE /\ Respond(p, Released(frame[p]),
                             Returned(MarkVisitedResult(None, Some(check))),
                             VisitResponse(res[p], Some(check)))
                  /\ checkedOut' = checkedOut - 1
        ELSE /\ HandlerCatch(p, Released(frame[p]), Unavailable)
             /\ checkedOut' = checkedOut - 1
    /\ UNCHANGED dbVars
    /\ EnvUnchanged

\* markVisited, second query: UPDATE ... SET status='Visited' ... RETURNING *
markVisited_update(p) ==
    /\ pc[p] = "update"
    /\ frame[p].fn = "markVisited"
    /\ \E up \in BOOLEAN :
        IF up /\ patientsTable
        THEN /\ patients' = UpdateVisited(patients, frame[p].patient_id)
             /\ LET row == CHOOSE r \in UpdateVisited(patients, frame[p].patient_id) :
                                r.id = frame[p].patient_id
                IN  Respond(p, Released(frame[p]),
                            Returned(MarkVisitedResult(Some(rowToPatient(row)), None)),
                            VisitResponse(res[p], None))
        ELSE /\ HandlerCatch(p, Released(frame[p]), Unavailable)
             /\ UNCHANGED patients
    /\ checkedOut' = checkedOut - 1
    /\ UNCHANGED << usersTable, patientsTable, users, usersSeq, patientsSeq >>
    /\ EnvUnchanged

\* getStats, first query: COUNT(*) WHERE status='Waiting'
getStats_waiting(p) ==
    /\ pc[p] = "count1"
    /\ \E up \in BOOLEAN :
        IF up /\ patientsTable
        THEN /\ Goto(p, "count2", [ frame[p] EXCEPT !.waiting = CountWaiting(patients) ])
             /\ UNCHANGED checkedOut
        ELSE /\ HandlerCatch(p, Released(frame[p]), Unavailable)
             /\ checkedOut' = checkedOut - 1
    /\ UNCHANGED dbVars
    /\ EnvUnchanged

\* getStats, second query: COUNT(*) WHERE status='Waiting' AND priority='Emergency'
getStats_emergency(p) ==
    /\ pc[p] = "count2"
    /\ \E up \in BOOLEAN :
        IF up /\ patientsTable
        THEN /\ Goto(p, "count3",
                     [ frame[p] EXCEPT !.emergency = CountEmergency(patients) ])
             /\ UNCHANGED checkedOut
        ELSE /\ HandlerCatch(p, Released(frame[p]), Unavailable)
             /\ checkedOut' = checkedOut - 1
    /\ UNCHANGED dbVars
    /\ EnvUnchanged

\* getStats, third query: COUNT(*) WHERE status='Visited', and the result.
getStats_visited(p) ==
    /\ pc[p] = "count3"
    /\ \E up \in BOOLEAN :
        IF up /\ patientsTable
        THEN LET stats == [ totalWaiting |-> frame[p].waiting,
                            totalEmergency |-> frame[p].emergency,
                            totalVisited |-> CountVisited(patients) ]
             IN  Respond(p, Released(frame[p]), Returned(stats),
                         status_body(res[p], 200, Some(stats)))
        ELSE HandlerCatch(p, Released(frame[p]), Unavailable)
    /\ checkedOut' = checkedOut - 1
    /\ UNCHANGED dbVars
    /\ EnvUnchanged

\* AuthResponse with the cookie's maxAge given in seconds.
AuthResponse_maxAgeInSeconds(r, user, code, t) ==
    LET token == createAccessToken(NumSub(user.id), user.email, user.role, 0, t) IN
    status_body(set_cookie(r, token, ACCESS_TOKEN_EXPIRE_MINUTES * 60),
                code, Some([ token |-> token, user |-> rowToUser(user) ]))

\* The token, the cookie and the body signup and login answer with.
AuthResponse(r, user, code, t) ==
    LET token == createAccessToken(NumSub(user.id), user.email, user.role, 0, t) IN
    status_body(set_cookie(r, token, ACCESS_TOKEN_EXPIRE_MINUTES * 60 * 1000),
                code, Some([ token |-> token, user |-> rowToUser(user) ]))

\* createUser: const hashedPassword = await hashPassword(password), after the
\* client was acquired and before the try whose finally releases it.
createUser_hash(p) ==
    /\ pc[p] = "hash"
    /\ \E ok \in BOOLEAN :
        IF ok
        THEN Goto(p, "insert",
                  [ frame[p] EXCEPT !.hashed = hashPassword(frame[p].password) ])
        ELSE /\ Leaked < MaxLeaks
             /\ HandlerCatch(p, Released(frame[p]), HashFailed)
    /\ UNCHANGED << dbVars, checkedOut >>
    /\ EnvUnchanged

\* createUser's catch that rethrows every error as it came.
createUser_catch_rethrow(code, message) == message

\* createUser's catch: a unique violation (code 23505) becomes
\* "Email already exists", any other error is rethrown.
createUser_catch(code, message) ==
    IF code = "23505" THEN "Email already exists" ELSE message

\* createUser: INSERT INTO users ... RETURNING; error code 23505 becomes
\* "Email already exists"; finally release.
createUser_insert(p) ==
    /\ pc[p] = "insert"
    /\ frame[p].fn = "createUser"
    /\ \E up \in BOOLEAN :
        IF up /\ usersTable
        THEN /\ usersSeq' = usersSeq + 1
             /\ IF \E u \in users : u.email = frame[p].email
                THEN /\ HandlerCatch(p, Released(frame[p]),
                                     createUser_catch("23505", DuplicateKey))
                     /\ UNCHANGED users
                ELSE LET row == UserRow(usersSeq, frame[p].name, frame[p].email,
                                        frame[p].hashed, frame[p].role)
                     IN  /\ users' = users \cup { row }
                         /\ Respond(p, Released(frame[p]), Returned(rowToUser(row)),
                                    AuthResponse(res[p], row, 201, now))
        ELSE /\ HandlerCatch(p, Released(frame[p]),
                             createUser_catch("08006", Unavailable))
             /\ UNCHANGED << users, usersSeq >>
    /\ checkedOut' = checkedOut - 1
    /\ UNCHANGED << usersTable, patientsTable, patients, patientsSeq >>
    /\ EnvUnchanged

\* A login failure that tells which half was wrong.
loginFailed_tellsWhich(r, knownEmail) ==
    status_json(r, 401, IF knownEmail THEN "Invalid password" ELSE "Unknown email")

\* POST /auth/login on an unknown email and on a wrong password:
\* res.status(401).json({ message: "Invalid email or password" })
loginFailed(r, knownEmail) == status_json(r, 401, "Invalid email or password")

\* getUserByEmail: SELECT ... WHERE email = $1; login answers 401 to null and
\* goes on to verifyPassword otherwise.
getUserByEmail(p) ==
    /\ pc[p] = "select"
    /\ frame[p].fn = "getUserByEmail"
    /\ \E up \in BOOLEAN :
        IF up /\ usersTable
        THEN LET found == { u \in users : u.email = frame[p].email } IN
             IF found = {}
             THEN Respond(p, Released(frame[p]), Returned(None),
                          loginFailed(res[p], FALSE))
             ELSE LET user == CHOOSE u \in found : TRUE IN
                  /\ pc' = [ pc EXCEPT ![p] = "verify" ]
                  /\ frame' = [ frame EXCEPT ![p] =
                                    [ Released(frame[p]) EXCEPT !.user = Some(user) ] ]
                  /\ ret' = [ ret EXCEPT ![p] = Returned(Some(user)) ]
                  /\ UNCHANGED res
        ELSE HandlerCatch(p, Released(frame[p]), Unavailable)
    /\ checkedOut' = checkedOut - 1
    /\ UNCHANGED dbVars
    /\ EnvUnchanged

\* POST /auth/login after await verifyPassword(payload.password, user.password)
login_verify(p) ==
    /\ pc[p] = "verify"
    /\ LET user == frame[p].user[1] IN
       IF verifyPassword(frame[p].password, user.password)
       THEN /\ pc' = [ pc EXCEPT ![p] = "done" ]
            /\ res' = [ res EXCEPT ![p] = AuthResponse(res[p], user, 200, now) ]
            /\ UNCHANGED << frame, ret >>
       ELSE /\ pc' = [ pc EXCEPT ![p] = "done" ]
            /\ res' = [ res EXCEPT ![p] = loginFailed(res[p], TRUE) ]
            /\ UNCHANGED << frame, ret >>
    /\ UNCHANGED << dbVars, checkedOut >>
    /\ EnvUnchanged

\* getUserById: SELECT ... WHERE id = $1; /auth/me answers 404 to null.
getUserById(p) ==
    /\ pc[p] = "select"
    /\ frame[p].fn = "getUserById"
    /\ \E up \in BOOLEAN :
        IF up /\ usersTable
        THEN LET found == { u \in users : u.id = frame[p].user_id } IN
             IF found = {}
             THEN Respond(p, Released(frame[p]), Returned(None),
                          status_json(res[p], 404, "User not found"))
             ELSE LET user == rowToUser(CHOOSE u \in found : TRUE) IN
                  Respond(p, Released(frame[p]), Returned(Some(user)),
                          status_body(res[p], 200, Some(user)))
        ELSE HandlerCatch(p, Released(frame[p]), Unavailable)
    /\ checkedOut' = checkedOut - 1
    /\ UNCHANGED dbVars
    /\ EnvUnchanged

\* The response has gone out; the slot serves the next request.
Recycle(p) ==
    /\ pc[p] = "done"
    /\ pc' = [ pc EXCEPT ![p] = "idle" ]
    /\ frame' = [ frame EXCEPT ![p] = EmptyFrame ]
    /\ ret' = [ ret EXCEPT ![p] = NoRet ]
    /\ res' = [ res EXCEPT ![p] = NewRes ]
    /\ UNCHANGED << dbVars, checkedOut >>
    /\ EnvUnchanged

\* ------------------------------------------------- the token functions
\* The claim sets createAccessToken is called with, and the payloads another
\* holder of JWT_SECRET may sign.
SubjectInputs ==
    { NumSub(n) : n \in 1..MaxSubject } \cup { StrSub(DigitsOf(n)) : n \in 1..MaxSubject }
RoleInputs == { "admin", "user" }
ExpiresDeltaInputs == { 0, 1 }

\* createAccessToken({ sub, email, role }, expiresDelta) is called.
Call_createAccessToken(p) ==
    /\ pc[p] = "idle"
    /\ \E sub \in SubjectInputs : \E email \in EmailInputs :
       \E role \in RoleInputs : \E expiresDelta \in ExpiresDeltaInputs :
        Goto(p, "issued",
             [ EmptyFrame EXCEPT
                 !.fn = "createAccessToken",
                 !.user = Some([ sub |-> sub, email |-> email, role |-> role ]),
                 !.token = Some(createAccessToken(sub, email, role, expiresDelta, now)) ])
    /\ UNCHANGED << dbVars, checkedOut >>
    /\ EnvUnchanged

\* jwt.sign by another holder of the secret: the payload is signed as it is,
\* with a numeric sub or with none.
Call_sign(p) ==
    /\ pc[p] = "idle"
    /\ \E sub \in SubjectInputs \cup { NoSub } : \E email \in EmailInputs :
       \E role \in RoleInputs :
        Goto(p, "issued",
             [ EmptyFrame EXCEPT
                 !.fn = "sign",
                 !.user = Some([ sub |-> sub, email |-> email, role |-> role ]),
                 !.token = Some(Jwt(sub, email, role, now \div 1000,
                                    (now \div 1000) + ACCESS_TOKEN_EXPIRE_MINUTES * 60,
                                    "ok")) ])
    /\ UNCHANGED << dbVars, checkedOut >>
    /\ EnvUnchanged

\* The client alters the token: its signature no longer verifies.
Tamper(p) ==
    /\ pc[p] = "issued"
    /\ frame[p].token[1].sig = "ok"
    /\ Goto(p, "issued", [ frame[p] EXCEPT !.token = Some([ @[1] EXCEPT !.sig = "bad" ]) ])
    /\ UNCHANGED << dbVars, checkedOut >>
    /\ EnvUnchanged

\* decodeToken(token) is called: the payload, or the one error.
Call_decodeToken(p) ==
    /\ pc[p] = "issued"
    /\ LET dec == decodeToken(frame[p].token[1], now) IN
       Respond(p, [ frame[p] EXCEPT !.via = "decodeToken" ],
               IF dec.ok THEN Returned(dec.payload) ELSE Thrown(dec.error),
               res[p])
    /\ UNCHANGED << dbVars, checkedOut >>
    /\ EnvUnchanged

\* A request reaches authMiddleware with the token in the Authorization
\* header, in the cookie, or left out.
Call_authMiddleware(p) ==
    /\ pc[p] = "issued"
    /\ \E via \in { "header", "cookie", "no token" } :
        LET h == IF via = "header" THEN Bearer(frame[p].token[1]) ELSE None
            c == IF via = "cookie" THEN frame[p].token ELSE None
            g == authMiddleware(h, c, now)
        IN  Respond(p, [ frame[p] EXCEPT !.via = via, !.entered = g.next,
                                         !.currentUser = g.currentUser ],
                    NoRet, g.res)
    /\ UNCHANGED << dbVars, checkedOut >>
    /\ EnvUnchanged

\* The forms in which a request may carry the token in its Authorization
\* header, and a header of none.
HeaderForms(token) ==
    { None, Bearer(token), BearerWide(token), BearerQuoted(token), Basic(token),
      Bearer(Lit("")), Bearer(Lit("null")), Bearer(Lit("NULL")),
      Bearer(Lit("undefined")) }

\* A request reaches authMiddleware with an Authorization header in one of
\* these forms and with or without the cookie of another, valid session.
Request_authMiddleware(p) ==
    /\ pc[p] = "issued"
    /\ \E h \in HeaderForms(frame[p].token[1]) : \E c \in { None, Some(GoodTok) } :
        LET g == authMiddleware(h, c, now) IN
        Respond(p, [ frame[p] EXCEPT !.via = "request", !.authHeader = h,
                                     !.cookie = c, !.token = g.token,
                                     !.entered = g.next,
                                     !.currentUser = g.currentUser ],
                NoRet, g.res)
    /\ UNCHANGED << dbVars, checkedOut >>
    /\ EnvUnchanged

\* The requests that create patients, with plain and with padded bodies.
IntakeArrive(p) ==
    \/ POST_patients(p)
    \/ POST_patients_padded(p)
    \/ POST_patients_invalid(p)

\* ------------------------------------------------------------- Next
\* A request for the patient queue (or /auth/me) arrives.
QueueArrive(p) ==
    \/ GET_patients(p)
    \/ GET_stats(p)
    \/ PUT_visit(p)
    \/ POST_patients(p)
    \/ POST_patients_invalid(p)

\* A patient-queue request in flight resumes after an await.
QueueResume(p) ==
    \/ getDbClient(p)
    \/ getAllPatients(p)
    \/ addPatient(p)
    \/ markVisited_select(p)
    \/ markVisited_update(p)
    \/ getStats_waiting(p)
    \/ getStats_emergency(p)
    \/ getStats_visited(p)

\* A request of the user directory arrives.
UserArrive(p) ==
    \/ POST_signup(p)
    \/ POST_login(p)
    \/ POST_logout(p)
    \/ GET_me(p)

\* A user-directory request in flight resumes after an await.
UserResume(p) ==
    \/ getDbClient(p)
    \/ createUser_hash(p)
    \/ createUser_insert(p)
    \/ getUserByEmail(p)
    \/ login_verify(p)
    \/ getUserById(p)

\* The whole system: every route, requests interleaving at every await.
Next ==
    \/ Tick
    \/ initDb
    \/ Restart
    \/ \E p \in Procs :
        \/ QueueArrive(p) \/ QueueResume(p) \/ IntakeArrive(p)
        \/ UserArrive(p) \/ UserResume(p) \/ Recycle(p)

Spec == Init /\ [][Next]_vars

\* One request at a time, in one slot.
Slot == "r1"

\* The patient routes and /auth/me, one request after the other: no call
\* interleaves with another.
NextSeq ==
    \/ Tick
    \/ initDb
    \/ QueueArrive(Slot)
    \/ QueueResume(Slot)
    \/ GET_me(Slot)
    \/ getUserById(Slot)
    \/ Recycle(Slot)

SpecSeq == Init /\ [][NextSeq]_vars

\* The user routes, one request after the other, over MaxStarts starts of
\* the process.
NextUsers ==
    \/ Tick
    \/ initDb
    \/ Restart
    \/ UserArrive(Slot)
    \/ UserResume(Slot)
    \/ Recycle(Slot)

SpecUsers == Init /\ [][NextUsers]_vars

\* The token functions and the guard on their own: tokens are signed,
\* possibly altered, and verified or presented while the clock runs.
NextTokens ==
    \/ Tick
    \/ Call_createAccessToken(Slot)
    \/ Call_sign(Slot)
    \/ Tamper(Slot)
    \/ Call_decodeToken(Slot)
    \/ Call_authMiddleware(Slot)
    \/ Request_authMiddleware(Slot)
    \/ Recycle(Slot)

SpecTokens == Init /\ [][NextTokens]_vars

\* A response goes out as soon as its handler has answered.
NoneDone == \A p \in Procs : pc[p] # "done"

\* The patient routes with requests interleaving at every await, within one
\* tick of the clock and until the id sequence has handed out MaxConcSeq
\* values.
NextConc ==
    \/ initDb
    \/ \E p \in Procs :
        /\ NoneDone
        /\ QueueArrive(p)
        /\ patientsSeq + Cardinality({ q \in Procs : pc'[q] \in { "connect", "insert" }
                                                    /\ frame'[q].fn = "addPatient" })
                <= MaxConcSeq + 1
    \/ \E p \in Procs : NoneDone /\ QueueResume(p)
    \/ \E p \in Procs : Recycle(p)

SpecConc == Init /\ [][NextConc]_vars

\* The creation of patients, one request after the other, with bodies typed
\* plainly and with spaces.
NextIntake ==
    \/ Tick
    \/ initDb
    \/ IntakeArrive(Slot)
    \/ getDbClient(Slot)
    \/ addPatient(Slot)
    \/ Recycle(Slot)

SpecIntake == Init /\ [][NextIntake]_vars

\* ================================================================ claims

\* C1: every listing getAllPatients returns has all Emergency patients before
\* all Normal ones, and among patients of equal priority the arrival instants
\* never decrease.
C1_ListingOrderedByPriorityThenArrival ==
    \A p \in Procs :
        (pc[p] = "done" /\ frame[p].fn = "getAllPatients" /\ ret[p].kind = "return") =>
            LET s == ret[p].val IN
            \A i \in 1..Len(s) : \A j \in 1..Len(s) :
                i < j =>
                    /\ ~(s[i].priority = "Normal" /\ s[j].priority = "Emergency")
                    /\ (s[i].priority = s[j].priority =>
                            SecondsOf(s[i].arrivalTime) <= SecondsOf(s[j].arrivalTime))

\* A listing that puts an Emergency patient ahead of a Normal one that
\* arrived earlier.
C1_Witness ==
    \E p \in Procs :
        /\ pc[p] = "done"
        /\ frame[p].fn = "getAllPatients"
        /\ ret[p].kind = "return"
        /\ Len(ret[p].val) = 2
        /\ ret[p].val[1].priority = "Emergency"
        /\ ret[p].val[2].priority = "Normal"
        /\ SecondsOf(ret[p].val[2].arrivalTime) < SecondsOf(ret[p].val[1].arrivalTime)

\* C2: markVisited on a Waiting patient returns that patient with status
\* Visited and stores it so; a Visited patient stays Visited; and every
\* listing holds no Visited patient and every Waiting patient exactly once.
C2_VisitedPatientLeavesListing ==
    [][ \A p \in Procs :
          /\ (pc[p] = "update" /\ ret'[p].kind = "return") =>
                /\ ret'[p].val.err = None
                /\ ret'[p].val.patient # None
                /\ ret'[p].val.patient[1].id = frame[p].patient_id
                /\ ret'[p].val.patient[1].status = "Visited"
                /\ \E r \in patients' :
                        r.id = frame[p].patient_id /\ r.status = "Visited"
          /\ \A r \in patients :
                r.status = "Visited" =>
                    \E r2 \in patients' : r2.id = r.id /\ r2.status = "Visited"
          /\ (pc[p] = "select" /\ frame[p].fn = "getAllPatients"
                /\ ret'[p].kind = "return") =>
                LET s == ret'[p].val IN
                /\ \A i \in 1..Len(s) :
                        ~\E r \in patients' : r.id = s[i].id /\ r.status = "Visited"
                /\ \A r \in patients' :
                        r.status = "Waiting" =>
                            Cardinality({ i \in 1..Len(s) : s[i].id = r.id }) = 1
      ]_vars

\* A listing that leaves out a Visited patient and holds the other one.
C2_Witness ==
    \E p \in Procs :
        /\ pc[p] = "done"
        /\ frame[p].fn = "getAllPatients"
        /\ ret[p].kind = "return"
        /\ Len(ret[p].val) = 1
        /\ \E r \in patients :
                /\ r.status = "Visited"
                /\ r.id # ret[p].val[1].id

\* C3: with no call interleaving, markVisited on a Waiting patient goes on to
\* the UPDATE and returns the patient; markVisited on a patient that is
\* already Visited returns [null, "already_visited"], answers 400 and leaves
\* the patients table as it was.
C3_SecondVisitIsAlreadyVisited ==
    [][ \A p \in Procs :
          LET mine == { r \in patients : r.id = frame[p].patient_id } IN
          /\ (frame[p].fn = "markVisited" /\ pc[p] = "select" /\ pc'[p] # "select"
                /\ ret'[p].kind # "throw") =>
                /\ (\E r \in mine : r.status = "Waiting") =>
                        pc'[p] = "update" /\ patients' = patients
                /\ (\E r \in mine : r.status = "Visited") =>
                        /\ pc'[p] = "done"
                        /\ ret'[p].kind = "return"
                        /\ ret'[p].val.patient = None
                        /\ ret'[p].val.err = Some("already_visited")
                        /\ res'[p].sent /\ res'[p].status = 400
                        /\ patients' = patients
          /\ (pc[p] = "update" /\ ret'[p].kind = "return") =>
                /\ ret'[p].val.err = None
                /\ ret'[p].val.patient # None
                /\ res'[p].sent /\ res'[p].status = 200
                /\ \E r \in patients' :
                        r.id = frame[p].patient_id /\ r.status = "Visited"
      ]_vars

\* A second markVisited on a patient created by enqueue has answered
\* already_visited.
C3_Witness ==
    \E p \in Procs :
        /\ pc[p] = "done"
        /\ frame[p].fn = "markVisited"
        /\ ret[p].kind = "return"
        /\ ret[p].val.err = Some("already_visited")
        /\ \E r \in patients :
                r.id = frame[p].patient_id /\ r.status = "Visited"

\* C4: markVisited with an id no stored patient has returns
\* [null, "not_found"], answers 404 and leaves the patients table as it was.
C4_UnknownIdIsNotFound ==
    [][ \A p \in Procs :
          (frame[p].fn = "markVisited" /\ pc[p] = "select" /\ pc'[p] # "select"
            /\ ret'[p].kind # "throw"
            /\ frame[p].patient_id \notin { r.id : r \in patients }) =>
                /\ pc'[p] = "done"
                /\ ret'[p].kind = "return"
                /\ ret'[p].val.patient = None
                /\ ret'[p].val.err = Some("not_found")
                /\ res'[p].sent /\ res'[p].status = 404
                /\ patients' = patients
      ]_vars

\* markVisited has answered not_found while patients are stored.
C4_Witness ==
    \E p \in Procs :
        /\ pc[p] = "done"
        /\ frame[p].fn = "markVisited"
        /\ ret[p].kind = "return"
        /\ ret[p].val.err = Some("not_found")
        /\ patients # {}
        /\ frame[p].patient_id \notin { r.id : r \in patients }

\* C5: in every step of every interleaving, a patient whose status is
\* Visited is still stored with status Visited afterwards.
C5_VisitedIsTerminal ==
    [][ \A r \in patients :
          r.status = "Visited" =>
              \E r2 \in patients' : r2.id = r.id /\ r2.status = "Visited"
      ]_vars

\* A patient is Visited while another markVisited on the same id, which read
\* it as Waiting, is about to run its UPDATE.
C5_Witness ==
    \E p \in Procs : \E r \in patients :
        /\ r.status = "Visited"
        /\ pc[p] = "update"
        /\ frame[p].patient_id = r.id

\* C6: a protected route's handler is entered only in the step in which
\* authMiddleware accepted a token that verifies and has not expired; only an
\* entered request holds a connection, awaits storage or has a storage result;
\* and a request the guard does not accept is answered 401 in that same step,
\* with no storage touched.
C6_GuardRunsBeforeProtectedHandlers ==
    [][ \A p \in Procs :
          /\ (pc[p] = "idle" /\ frame'[p].entered
                /\ frame'[p].route \in ProtectedRoutes) =>
                /\ frame'[p].token # None
                /\ frame'[p].token[1].lit = "jwt"
                /\ frame'[p].token[1].sig = "ok"
                /\ (now \div 1000) < frame'[p].token[1].exp
                /\ frame'[p].currentUser # None
          /\ (frame'[p].entered /\ ~frame[p].entered) => pc[p] = "idle"
          /\ (frame'[p].route \in ProtectedRoutes
                /\ (frame'[p].client \/ ret'[p].kind # "none"
                        \/ pc'[p] \notin { "idle", "done" })) =>
                frame'[p].entered
          /\ (pc[p] = "idle" /\ pc'[p] # "idle"
                /\ frame'[p].route \in ProtectedRoutes /\ ~frame'[p].entered) =>
                /\ pc'[p] = "done"
                /\ res'[p].sent
                /\ res'[p].status = 401
                /\ patients' = patients
                /\ users' = users
                /\ checkedOut' = checkedOut
      ]_vars

\* A protected handler, entered with an identity, holds a storage connection.
C6_Witness ==
    \E p \in Procs :
        /\ frame[p].route \in ProtectedRoutes
        /\ frame[p].entered
        /\ frame[p].currentUser # None
        /\ frame[p].client

\* C7: every 401 the guard sends carries the header WWW-Authenticate: Bearer.
C7_GuardFailureCarriesBearerChallenge ==
    \A p \in Procs :
        (pc[p] = "done" /\ frame[p].route \in ProtectedRoutes /\ ~frame[p].entered
            /\ res[p].sent /\ res[p].status = 401) =>
            "WWW-Authenticate: Bearer" \in res[p].headers

\* C8: the connections checked out of the pool are exactly those held by the
\* storage operations still running (initDb included): an operation that has
\* returned or thrown has released its connection.
C8_EveryExitReleasesTheConnection ==
    checkedOut = Cardinality({ p \in Procs : frame[p].client })
                    + (IF boot.client THEN 1 ELSE 0)

\* C9: addPatient fails only when storage is unavailable.
C9_EnqueueSucceedsWhenStorageAvailable ==
    \A p \in Procs :
        (pc[p] = "done" /\ frame[p].fn = "addPatient" /\ ret[p].kind = "throw") =>
            ret[p].error = Unavailable

\* C10: with no other operation running, getStats returns the number of
\* Waiting patients, of Waiting Emergency patients and of Visited patients;
\* so while only Normal patients have been visited, with e Emergency and n
\* Normal patients stored and v visited, it returns e + n - v, e and v.
C10_StatsCountTheStore ==
    \A p \in Procs :
        (pc[p] = "done" /\ frame[p].fn = "getStats" /\ ret[p].kind = "return") =>
            LET st == ret[p].val
                W == { r \in patients : r.status = "Waiting" }
                V == { r \in patients : r.status = "Visited" }
                E == { r \in patients : r.priority = "Emergency" }
                N == { r \in patients : r.priority = "Normal" }
            IN  /\ st.totalWaiting = Cardinality(W)
                /\ st.totalEmergency = Cardinality(W \cap E)
                /\ st.totalVisited = Cardinality(V)
                /\ (V \subseteq N) =>
                        /\ st.totalWaiting = Cardinality(E) + Cardinality(N) - Cardinality(V)
                        /\ st.totalEmergency = Cardinality(E)
                        /\ st.totalVisited = Cardinality(V)

\* getStats has returned for a store of one Emergency and two Normal patients
\* of which one Normal was visited.
C10_Witness ==
    \E p \in Procs :
        /\ pc[p] = "done"
        /\ frame[p].fn = "getStats"
        /\ ret[p].kind = "return"
        /\ ret[p].val = [ totalWaiting |-> 2, totalEmergency |-> 1, totalVisited |-> 1 ]
        /\ \E r \in patients : r.status = "Visited" /\ r.priority = "Normal"

\* C11: a markVisited call that read its patient as Waiting returns that
\* patient as a success when its UPDATE runs, also when another markVisited
\* call on the same id has made the patient Visited in between: it does not
\* return already_visited, and the patient is stored Visited afterwards.
C11_InterleavedVisitsBothSucceed ==
    [][ \A p \in Procs :
          (pc[p] = "update" /\ frame[p].fn = "markVisited"
            /\ ret'[p].kind = "return") =>
                /\ ret'[p].val.err = None
                /\ ret'[p].val.patient # None
                /\ ret'[p].val.patient[1].id = frame[p].patient_id
                /\ ret'[p].val.patient[1].status = "Visited"
                /\ res'[p].sent /\ res'[p].status = 200
                /\ \A r \in patients' :
                        r.id = frame[p].patient_id => r.status = "Visited"
      ]_vars

\* One markVisited call has returned the patient as a success while the
\* other, on the same id, has read Waiting and has its UPDATE still to run.
C11_Witness ==
    \E p \in Procs : \E q \in Procs :
        /\ p # q
        /\ pc[p] = "done"
        /\ frame[p].fn = "markVisited"
        /\ ret[p].kind = "return"
        /\ ret[p].val.err = None
        /\ pc[q] = "update"
        /\ frame[q].fn = "markVisited"
        /\ frame[q].patient_id = frame[p].patient_id

\* C12: createUser with an email a stored user already has throws
\* "Email already exists" (signup answers 400 with that message), adds no
\* user and leaves every stored user as it was; no two stored users ever
\* have the same email.
C12_DuplicateEmailIsDistinguished ==
    [][ /\ \A p \in Procs :
            (pc[p] = "insert" /\ frame[p].fn = "createUser"
                /\ (\E u \in users : u.email = frame[p].email)
                /\ ret'[p].kind # "none" /\ ret'[p] # Thrown(Unavailable)) =>
                    /\ ret'[p] = Thrown("Email already exists")
                    /\ res'[p].sent
                    /\ res'[p].status = 400
                    /\ res'[p].message = "Email already exists"
                    /\ res'[p].cookie = None
                    /\ users' = users
        /\ \A u \in users' : \A v \in users' : u.email = v.email => u = v
      ]_vars

\* A signup with the email of a stored user has been refused.
C12_Witness ==
    \E p \in Procs :
        /\ pc[p] = "done"
        /\ frame[p].fn = "createUser"
        /\ ret[p] = Thrown("Email already exists")
        /\ \E u \in users : u.email = frame[p].email /\ u.role = "user"

C14_OnlySignedUnexpiredTokensVerify ==
    [][ \A p \in Procs :
          (pc[p] = "issued" /\ pc'[p] = "done") =>
            LET token == frame[p].token[1]
                altered == token.sig # "ok"
                expired == (now \div 1000) >= token.exp
            IN  /\ (frame'[p].via = "decodeToken" /\ ret'[p].kind = "return") =>
                        ~altered /\ ~expired
                /\ (frame'[p].via = "decodeToken" /\ (altered \/ expired)) =>
                        ret'[p] = Thrown("Invalid authentication credentials")
                /\ (frame'[p].via \in { "header", "cookie" } /\ (altered \/ expired)) =>
                        /\ ~frame'[p].entered
                        /\ frame'[p].currentUser = None
                        /\ res'[p].sent
                        /\ res'[p].status = 401
                        /\ res'[p].message = "Invalid authentication credentials"
      ]_vars

\* A token of createAccessToken, unaltered, presented as a bearer token after
\* its expiry, has been refused with 401.
C14_Witness ==
    \E p \in Procs :
        /\ pc[p] = "done"
        /\ frame[p].via = "header"
        /\ frame[p].fn = "createAccessToken"
        /\ frame[p].token[1].sig = "ok"
        /\ (now \div 1000) >= frame[p].token[1].exp
        /\ ~frame[p].entered
        /\ res[p].status = 401

\* C15: authMiddleware given a request with no Authorization header and no
\* cookie answers 401 "Invalid authentication credentials" and does not call
\* next(); given an unaltered, unexpired bearer token for user id n, whose sub
\* is the number n or the decimal string of n, it calls next() with
\* currentUser.user_id equal to the integer n.
C15_ResolveYieldsTheIntegerUserId ==
    [][ \A p \in Procs :
          (pc[p] = "issued" /\ pc'[p] = "done") =>
            LET token == frame[p].token[1]
                given == frame[p].user[1]
            IN  /\ frame'[p].via = "no token" =>
                        /\ ~frame'[p].entered
                        /\ frame'[p].currentUser = None
                        /\ res'[p].sent
                        /\ res'[p].status = 401
                        /\ res'[p].message = "Invalid authentication credentials"
                /\ (frame'[p].via = "header" /\ token.sig = "ok"
                        /\ (now \div 1000) < token.exp
                        /\ given.sub.t # "undefined") =>
                        /\ frame'[p].entered
                        /\ frame'[p].currentUser # None
                        /\ \E n \in 1..MaxSubject :
                            /\ given.sub \in { NumSub(n), StrSub(DigitsOf(n)) }
                            /\ frame'[p].currentUser[1].user_id = n
                        /\ frame'[p].currentUser[1].email = given.email
                        /\ frame'[p].currentUser[1].role = given.role
                        /\ ~res'[p].sent
      ]_vars

\* authMiddleware has accepted a bearer token whose sub is a number of two
\* digits, as another signer wrote it.
C15_Witness ==
    \E p \in Procs :
        /\ pc[p] = "done"
        /\ frame[p].via = "header"
        /\ frame[p].fn = "sign"
        /\ frame[p].token[1].sub.t = "number"
        /\ frame[p].token[1].sub.n >= 10
        /\ frame[p].entered
        /\ frame[p].currentUser[1].user_id = frame[p].token[1].sub.n

\* C16: every request that has been answered got its response without any
\* exception raised by a write to the response after it was sent, so nothing
\* escapes the middleware or the handler.
C16_NoExceptionEscapes ==
    \A p \in Procs :
        pc[p] = "done" => (res[p].sent /\ ~res[p].threw)

\* C17: whenever initDb has run to its end without error, exactly one user
\* has the email admin@clinic.com and that user has role admin.
C17_BootstrapGuaranteesTheAdmin ==
    boot.pc = "done" =>
        /\ Cardinality({ u \in users : u.email = AdminEmail }) = 1
        /\ \A u \in users : u.email = AdminEmail => u.role = "admin"

\* C18: a request is taken up only when initDb has finished and app.listen
\* has run; while initDb is in progress no request is in flight and the
\* server does not listen; and once initDb has finished it does not run
\* again until the process is started again.
C18_ListenOnlyAfterBootstrap ==
    [][ LET finished == boot.pc \in { "done", "failed" }
            finished2 == boot'.pc \in { "done", "failed" }
        IN  /\ \A p \in Procs :
                (pc[p] = "idle" /\ pc'[p] # "idle") => (finished /\ listening)
            /\ listening' => finished2
            /\ ~finished2 => \A p \in Procs : pc'[p] = "idle"
            /\ (finished /\ boot'.run = boot.run) => boot' = boot
            /\ boot'.run \in { boot.run, boot.run + 1 }
            /\ boot'.run # boot.run => (boot'.pc = "connect" /\ ~listening')
      ]_vars

\* On the second start of the process initDb has finished and a request is
\* in flight.
C18_Witness ==
    /\ boot.run = 2
    /\ boot.pc = "done"
    /\ listening
    /\ \E p \in Procs : pc[p] \notin { "idle", "done" }

\* C19: the sequence getAllPatients has returned is the only one its query
\* can return for the stored patients: every ordering of the Waiting rows
\* that satisfies the ORDER BY is that sequence.
C19_ListingIsDeterminedByTheStore ==
    \A p \in Procs :
        (pc[p] = "done" /\ frame[p].fn = "getAllPatients" /\ ret[p].kind = "return") =>
            \A rows \in SelectWaitingOrdered(patients) :
                [ i \in 1..Len(rows) |-> rowToPatient(rows[i]) ] = ret[p].val

\* C20: a login that fails, because no user has the email or because the
\* password does not verify, is answered with one and the same response:
\* status 401, message "Invalid email or password", no token in the body and
\* no cookie; and only a login with the stored user's password gets a token.
C20_LoginFailureIsUninformative ==
    \A p \in Procs :
        (pc[p] = "done" /\ frame[p].route = "POST /auth/login"
            /\ ret[p].kind = "return") =>
            LET known == { u \in users : u.email = frame[p].email }
                right == \E u \in known : u.password = << "bcrypt", frame[p].password >>
            IN  IF right
                THEN /\ res[p].status = 200
                     /\ res[p].body # None
                     /\ res[p].cookie # None
                ELSE res[p] = [ sent |-> TRUE, status |-> 401,
                                message |-> "Invalid email or password",
                                body |-> <<>>, headers |-> {}, cookie |-> None,
                                threw |-> FALSE ]

\* A login with a stored email and a wrong password has been answered 401.
C20_Witness ==
    \E p \in Procs :
        /\ pc[p] = "done"
        /\ frame[p].route = "POST /auth/login"
        /\ frame[p].user # None
        /\ frame[p].user[1].email = frame[p].email
        /\ frame[p].user[1].password # << "bcrypt", frame[p].password >>
        /\ res[p].status = 401

\* C21: the token a successful signup or login answers with expires exactly
\* 24 hours after it was issued and is set as the cookie, whose maxAge (in
\* milliseconds) is that same span; logout sets the cookie again, empty and
\* with maxAge 0.
C21_CookieLivesAsLongAsTheToken ==
    \A p \in Procs :
        pc[p] = "done" =>
            /\ (frame[p].route \in { "POST /auth/signup", "POST /auth/login" }
                    /\ res[p].status \in { 200, 201 }) =>
                    /\ res[p].body # None
                    /\ res[p].cookie # None
                    /\ LET token == res[p].body[1].token IN
                        /\ token.exp - token.iat = 24 * 60 * 60
                        /\ token.iat <= now \div 1000
                        /\ res[p].cookie[1].value = token
                        /\ res[p].cookie[1].maxAge = (token.exp - token.iat) * 1000
            /\ frame[p].route = "POST /auth/logout" =>
                    /\ res[p].sent
                    /\ res[p].status = 200
                    /\ res[p].cookie # None
                    /\ res[p].cookie[1].maxAge = 0
                    /\ res[p].cookie[1].value.lit = ""

\* A login has been answered with a token and its cookie.
C21_Witness ==
    \E p \in Procs :
        /\ pc[p] = "done"
        /\ frame[p].route = "POST /auth/login"
        /\ res[p].status = 200
        /\ res[p].cookie # None
        /\ res[p].cookie[1].maxAge > 0

C23_OperationsChangeOnlyWhatTheyName ==
    [][ /\ \A r \in patients :
            \E r2 \in patients' :
                /\ r2.id = r.id
                /\ r2.name = r.name
                /\ r2.problem = r.problem
                /\ r2.priority = r.priority
                /\ r2.arrivalTime = r.arrivalTime
        /\ \A p \in Procs :
            (pc[p] \notin { "idle", "done" } /\ pc'[p] # pc[p]) =>
                CASE frame[p].fn = "markVisited" ->
                        /\ Cardinality(patients') = Cardinality(patients)
                        /\ \A r \in patients :
                                r.id # frame[p].patient_id => r \in patients'
                  [] frame[p].fn = "addPatient" ->
                        /\ patients \subseteq patients'
                        /\ Cardinality(patients' \ patients) <= 1
                        /\ \A r \in patients' \ patients :
                                /\ r.name = frame[p].name
                                /\ r.problem = frame[p].problem
                                /\ r.priority = frame[p].priority
                                /\ r.status = "Waiting"
                  [] OTHER -> patients' = patients
      ]_vars

\* markVisited has answered for one patient, now Visited, while another
\* patient, added by a request, is stored and still Waiting.
C23_Witness ==
    \E p \in Procs :
        /\ pc[p] = "done"
        /\ frame[p].fn = "markVisited"
        /\ ret[p].kind = "return"
        /\ ret[p].val.err = None
        /\ \E r \in patients : r.id = frame[p].patient_id /\ r.status = "Visited"
        /\ \E r \in patients : r.id # frame[p].patient_id /\ r.status = "Waiting"

\* C24: the totals getStats returns are those of one moment of the call:
\* totalEmergency is at most totalWaiting, and totalWaiting + totalVisited is
\* the number of patients stored at that moment, hence not more than are
\* stored when the call returns (no patient is ever removed).
C24_StatsAreOneSnapshot ==
    [][ \A p \in Procs :
          (pc[p] = "count3" /\ pc'[p] = "done" /\ ret'[p].kind = "return") =>
             /\ ret'[p].val.totalEmergency <= ret'[p].val.totalWaiting
             /\ ret'[p].val.totalWaiting + ret'[p].val.totalVisited
                    <= Cardinality(patients)
      ]_vars

\* C25: in every reachable state a user with role admin is the bootstrap
\* account admin@clinic.com; a user created by POST /auth/signup is stored and
\* returned with role user, whatever role the body names; and no step changes
\* the role of a stored user or removes a user.
C25_OnlyTheBootstrapAccountIsAdmin ==
    /\ [](\A u \in users : u.role = "admin" => u.email = AdminEmail)
    /\ [][ /\ \A u \in users : \E u2 \in users' : u2.id = u.id /\ u2.role = u.role
           /\ \A p \in Procs :
                (pc[p] = "insert" /\ frame[p].fn = "createUser"
                    /\ pc'[p] = "done" /\ ret'[p].kind = "return") =>
                        /\ ret'[p].val.role = "user"
                        /\ \A u \in users' \ users :
                                u.role = "user" /\ u.email = frame[p].email
                        /\ users' # users
         ]_vars

\* A signup whose body named the role admin has created a user with role
\* user, beside the bootstrap administrator.
C25_Witness ==
    \E p \in Procs :
        /\ pc[p] = "done"
        /\ frame[p].route = "POST /auth/signup"
        /\ frame[p].body_role = Some("admin")
        /\ res[p].status = 201
        /\ \E u \in users : u.email = frame[p].email /\ u.role = "user"
        /\ \E u \in users : u.email = AdminEmail /\ u.role = "admin"

\* C26: every patient stored, and every patient POST /patients answers with,
\* has a name and a problem without surrounding whitespace and of at least
\* NAME_LEN and PROBLEM_LEN characters.
C26_StoredNamesAreTrimmedAndLongEnough ==
    /\ \A r \in patients :
        /\ Trim(r.name) = r.name
        /\ Trim(r.problem) = r.problem
        /\ Len(r.name) >= NAME_LEN
        /\ Len(r.problem) >= PROBLEM_LEN
    /\ \A p \in Procs :
        (pc[p] = "done" /\ frame[p].route = "POST /patients" /\ res[p].status = 201) =>
            /\ Len(frame[p].name) >= NAME_LEN
            /\ Len(frame[p].problem) >= PROBLEM_LEN

====
